---- MODULE Spec2Model ----
(***************************************************************************)
(* Model of pykrige/variogram_models.py: the registry of variogram models  *)
(* (variogram_models, _add_model, variogram_model.__init__), the seven     *)
(* semivariance functions and their bounds / initial-guess helpers.        *)
(*                                                                         *)
(* Numbers are extended rationals: a finite value n/d in lowest terms, or  *)
(* one of +inf, -inf, nan with IEEE-754 propagation.  Two further kinds    *)
(* are not numbers: "zde" stands for a ZeroDivisionError raised by Python  *)
(* float arithmetic (it poisons every expression it enters, as a raised    *)
(* exception does), and "irr" marks a value that is not a rational (exp of *)
(* a non-zero argument, a fractional power); the actions draw only inputs  *)
(* whose result is free of "irr".  Rounding, overflow and underflow of     *)
(* binary floating point and the sign of zero are not modelled.            *)
(***************************************************************************)
EXTENDS Integers, Sequences, FiniteSets, TLC

\* ------------------------------------------------------------------ bounds
MaxParam == 2    \* parameter entries of m range over -1..MaxParam and 1/2
MaxDist  == 2    \* distances range over 0..MaxDist
MaxDLen  == 2    \* longest distance array
MaxVal   == 1    \* lag and semivariance entries range over -1..MaxVal
MaxLags  == 2    \* longest lags / semivariance sequence
MaxRegs  == 2    \* registrations made after module initialisation

\* --------------------------------------------------------------- numbers
Abs(x) == IF x < 0 THEN -x ELSE x

RECURSIVE GCD(_, _)
GCD(a, b) == IF b = 0 THEN a ELSE GCD(b, a % b)

Mk(kind) == [k |-> kind, n |-> 0, d |-> 1]

\* the rational n/d (d # 0) in lowest terms with a positive denominator
Fin(n, d) ==
    LET s == IF d < 0 THEN -1 ELSE 1
        g == GCD(Abs(n), Abs(d))
    IN  [k |-> "fin", n |-> (s * n) \div g, d |-> (s * d) \div g]

Int2Num(i) == Fin(i, 1)
Zero == Fin(0, 1)
One  == Fin(1, 1)
Inf  == Mk("inf")
NInf == Mk("ninf")
NaN  == Mk("nan")
ZDE  == Mk("zde")
IRR  == Mk("irr")

IsFinite(a) == a.k = "fin"
IsNonFinite(a) == a.k \in {"inf", "ninf", "nan"}

\* -1, 0 or 1; nan has no sign and is never asked for one
Sign(a) ==
    CASE a.k = "fin"  -> (IF a.n > 0 THEN 1 ELSE IF a.n < 0 THEN -1 ELSE 0)
      [] a.k = "inf"  -> 1
      [] a.k = "ninf" -> -1
      [] OTHER        -> 0

\* what an operand pair forces before any arithmetic is done
Special(a, b) ==
    IF a.k = "zde" \/ b.k = "zde" THEN "zde"
    ELSE IF a.k = "irr" \/ b.k = "irr" THEN "irr"
    ELSE IF a.k = "nan" \/ b.k = "nan" THEN "nan"
    ELSE "ok"

Signed(s) == IF s > 0 THEN Inf ELSE IF s < 0 THEN NInf ELSE NaN

Neg(a) ==
    CASE a.k = "fin"  -> Fin(-a.n, a.d)
      [] a.k = "inf"  -> NInf
      [] a.k = "ninf" -> Inf
      [] OTHER        -> a

Add(a, b) ==
    LET s == Special(a, b) IN
    IF s # "ok" THEN Mk(s)
    ELSE IF a.k = "fin" /\ b.k = "fin" THEN Fin(a.n * b.d + b.n * a.d, a.d * b.d)
    ELSE IF a.k = "fin" THEN b
    ELSE IF b.k = "fin" THEN a
    ELSE IF a.k = b.k THEN a
    ELSE NaN

Sub(a, b) == Add(a, Neg(b))

Mul(a, b) ==
    LET s == Special(a, b) IN
    IF s # "ok" THEN Mk(s)
    ELSE IF a.k = "fin" /\ b.k = "fin" THEN Fin(a.n * b.n, a.d * b.d)
    ELSE Signed(Sign(a) * Sign(b))

\* numpy division: a zero divisor gives inf or nan (with a warning), no error
NpDiv(a, b) ==
    LET s == Special(a, b) IN
    IF s # "ok" THEN Mk(s)
    ELSE IF b.k = "fin" /\ b.n = 0 THEN Signed(Sign(a))
    ELSE IF a.k = "fin" /\ b.k = "fin" THEN Fin(a.n * b.d, a.d * b.n)
    ELSE IF a.k = "fin" THEN Zero
    ELSE IF b.k = "fin" THEN Signed(Sign(a) * Sign(b))
    ELSE NaN

\* Python float division: a zero divisor raises ZeroDivisionError
PyDiv(a, b) ==
    IF a.k = "zde" \/ b.k = "zde" THEN ZDE
    ELSE IF b.k = "fin" /\ b.n = 0 THEN ZDE
    ELSE NpDiv(a, b)

\* py: both operands are Python floats; otherwise one is a numpy value
Div(a, b, py) == IF py THEN PyDiv(a, b) ELSE NpDiv(a, b)

Rank(a) == CASE a.k = "ninf" -> -1 [] a.k = "inf" -> 1 [] OTHER -> 0

\* IEEE comparisons: false as soon as an operand is nan
Lt(a, b) ==
    /\ a.k # "nan" /\ b.k # "nan"
    /\ IF a.k = "fin" /\ b.k = "fin" THEN a.n * b.d < b.n * a.d
       ELSE Rank(a) < Rank(b)

Le(a, b) == a.k # "nan" /\ b.k # "nan" /\ (a = b \/ Lt(a, b))
Gt(a, b) == Lt(b, a)

RECURSIVE IntPow(_, _)
IntPow(b, n) == IF n = 0 THEN One ELSE Mul(b, IntPow(b, n - 1))

\* b ** e.  Exact for e = 0, b = 1, b = 0 and integer e; "irr" otherwise.
\* 0 ** negative is inf in numpy and a ZeroDivisionError for Python floats.
Pow(b, e, py) ==
    IF b.k = "zde" \/ e.k = "zde" THEN ZDE
    ELSE IF b.k = "irr" \/ e.k = "irr" THEN IRR
    ELSE IF e = Zero THEN One
    ELSE IF b = One THEN One
    ELSE IF b.k = "nan" \/ e.k = "nan" THEN NaN
    ELSE IF b = Zero THEN
        (IF Sign(e) > 0 THEN Zero ELSE IF py THEN ZDE ELSE Inf)
    ELSE IF e.k = "fin" /\ e.d = 1 THEN
        (IF e.n > 0 THEN IntPow(b, e.n) ELSE NpDiv(One, IntPow(b, -e.n)))
    ELSE IRR

\* np.exp: exact at 0 and at the non-finite arguments, irrational elsewhere
Exp(x) ==
    CASE x.k = "zde"  -> ZDE
      [] x.k = "irr"  -> IRR
      [] x.k = "nan"  -> NaN
      [] x.k = "inf"  -> Inf
      [] x.k = "ninf" -> Zero
      [] OTHER        -> IF x.n = 0 THEN One ELSE IRR

\* np.amax / np.amin of a non-empty sequence of numbers
RECURSIVE amax(_)
amax(s) ==
    IF Len(s) = 1 THEN s[1]
    ELSE LET r == amax(Tail(s)) IN
         IF s[1].k = "nan" \/ r.k = "nan" THEN NaN
         ELSE IF Lt(r, s[1]) THEN s[1] ELSE r

RECURSIVE amin(_)
amin(s) ==
    IF Len(s) = 1 THEN s[1]
    ELSE LET r == amin(Tail(s)) IN
         IF s[1].k = "nan" \/ r.k = "nan" THEN NaN
         ELSE IF Lt(s[1], r) THEN s[1] ELSE r

\* ------------------------------------------- outcomes of a function call
Raise(e) == [err |-> e, val |-> <<>>]

\* the value of a call, or the ZeroDivisionError raised while computing it
Return(vals) ==
    IF \E i \in DOMAIN vals : vals[i].k = "zde"
    THEN Raise("ZeroDivisionError")
    ELSE [err |-> "ok", val |-> vals]

Inexact(out) == \E i \in DOMAIN out.val : out.val[i].k = "irr"

\* float(x) of a number is that number as a float
float(x) == x

\* d is [kind, v]: a Python float (v has one entry) or a numpy array
IsPy(d) == d.kind = "float"

\* --------------------------------------------------- evaluation functions
\* variant: the nugget is read from the slope's position
linear_variogram_model_one_index(m, d) ==
    IF Len(m) < 1 THEN Raise("IndexError")
    ELSE LET slope  == float(m[1])
             nugget == float(m[1])
         IN  Return([i \in 1..Len(d.v) |-> Add(Mul(slope, d.v[i]), nugget)])

linear_variogram_model(m, d) ==
    IF Len(m) < 2 THEN Raise("IndexError")
    ELSE LET slope  == float(m[1])
             nugget == float(m[2])
         IN  Return([i \in 1..Len(d.v) |-> Add(Mul(slope, d.v[i]), nugget)])

power_variogram_model(m, d) ==
    IF Len(m) < 3 THEN Raise("IndexError")
    ELSE LET scale    == float(m[1])
             exponent == float(m[2])
             nugget   == float(m[3])
         IN  Return([i \in 1..Len(d.v) |->
                 Add(Mul(scale, Pow(d.v[i], exponent, IsPy(d))), nugget)])

\* variant: the nugget term is left out
gaussian_variogram_model_no_nugget(m, d) ==
    IF Len(m) < 3 THEN Raise("IndexError")
    ELSE LET psill  == float(m[1])
             range_ == float(m[2])
             den    == Pow(Div(Mul(range_, Fin(4, 1)), Fin(7, 1), TRUE),
                           Fin(2, 1), TRUE)
         IN  Return([i \in 1..Len(d.v) |->
                 Mul(psill,
                     Sub(One, Exp(Div(Neg(Pow(d.v[i], Fin(2, 1), IsPy(d))),
                                      den, IsPy(d)))))])

gaussian_variogram_model(m, d) ==
    IF Len(m) < 3 THEN Raise("IndexError")
    ELSE LET psill  == float(m[1])
             range_ == float(m[2])
             nugget == float(m[3])
             den    == Pow(Div(Mul(range_, Fin(4, 1)), Fin(7, 1), TRUE),
                           Fin(2, 1), TRUE)
         IN  Return([i \in 1..Len(d.v) |->
                 Add(Mul(psill,
                         Sub(One, Exp(Div(Neg(Pow(d.v[i], Fin(2, 1), IsPy(d))),
                                          den, IsPy(d))))),
                     nugget)])

exponential_variogram_model(m, d) ==
    IF Len(m) < 3 THEN Raise("IndexError")
    ELSE LET psill  == float(m[1])
             range_ == float(m[2])
             nugget == float(m[3])
             den    == Div(range_, Fin(3, 1), TRUE)
         IN  Return([i \in 1..Len(d.v) |->
                 Add(Mul(psill, Sub(One, Exp(Div(Neg(d.v[i]), den, IsPy(d))))),
                     nugget)])

\* np.piecewise(x, condlist, funclist): y starts as zeros and, for each
\* condition in turn, the selected elements take that function's values
RECURSIVE piecewise(_, _, _, _)
piecewise(y, condlist, funcvals, j) ==
    IF j > Len(condlist) THEN y
    ELSE piecewise([i \in DOMAIN y |->
                       IF condlist[j][i] THEN funcvals[j][i] ELSE y[i]],
                   condlist, funcvals, j + 1)

\* the lambda of the d <= range_ branch; x is a numpy array element
spherical_inner(psill, range_, nugget, x) ==
    Add(Mul(psill,
            Sub(NpDiv(Mul(Fin(3, 1), x), Mul(Fin(2, 1), range_)),
                NpDiv(Pow(x, Fin(3, 1), FALSE),
                      Mul(Fin(2, 1), Pow(range_, Fin(3, 1), TRUE))))),
        nugget)

\* variant: one branch for the whole array, chosen by its first element
spherical_variogram_model_global(m, d) ==
    IF Len(m) < 3 THEN Raise("IndexError")
    ELSE LET psill  == float(m[1])
             range_ == float(m[2])
             nugget == float(m[3])
             idx    == 1..Len(d.v)
         IN  Return([i \in idx |->
                 IF Le(d.v[1], range_)
                 THEN spherical_inner(psill, range_, nugget, d.v[i])
                 ELSE Add(psill, nugget)])

spherical_variogram_model(m, d) ==
    IF Len(m) < 3 THEN Raise("IndexError")
    ELSE LET psill  == float(m[1])
             range_ == float(m[2])
             nugget == float(m[3])
             idx    == 1..Len(d.v)
         IN  Return(piecewise(
                 [i \in idx |-> Zero],
                 << [i \in idx |-> Le(d.v[i], range_)],
                    [i \in idx |-> Gt(d.v[i], range_)] >>,
                 << [i \in idx |-> spherical_inner(psill, range_, nugget, d.v[i])],
                    [i \in idx |-> Add(psill, nugget)] >>,
                 1))

hole_effect_variogram_model(m, d) ==
    IF Len(m) < 3 THEN Raise("IndexError")
    ELSE LET psill  == float(m[1])
             range_ == float(m[2])
             nugget == float(m[3])
             den    == Div(range_, Fin(3, 1), TRUE)
         IN  Return([i \in 1..Len(d.v) |->
                 Add(Mul(psill,
                         Sub(One,
                             Mul(Sub(One, Div(d.v[i], den, IsPy(d))),
                                 Exp(Div(Neg(d.v[i]), den, IsPy(d)))))),
                     nugget)])

\* np.float is the builtin float (the numpy the module was written for)
gamma_rayleigh_nuggetless_variogram_model(m, d) ==
    IF Len(m) < 3 THEN Raise("IndexError")
    ELSE LET sill    == float(m[1])
             falloff == float(m[2])
             beta    == float(m[3])
         IN  Return([i \in 1..Len(d.v) |->
                 LET fd   == Mul(falloff, d.v[i])
                     omfd == Sub(One, Mul(falloff, d.v[i]))
                     bfd2 == Mul(Mul(beta, omfd), omfd)
                 IN  Mul(Mul(sill, fd), Exp(Sub(omfd, bfd2)))])

\* ------------------------------------------ bounds / initial-guess helpers
\* np.amax / np.amin raise ValueError on an empty sequence
RaiseB(e) == [err |-> e, lower |-> <<>>, upper |-> <<>>]
ReturnB(lo, up) == [err |-> "ok", lower |-> lo, upper |-> up]

linear_variogram_model_bnds(lags, semivariance) ==
    IF Len(semivariance) = 0 THEN RaiseB("ValueError")
    ELSE ReturnB(<<Zero, Zero>>, <<Inf, amax(semivariance)>>)

\* variant: the division is done on Python floats
linear_variogram_model_x0_pydiv(lags, semivariance) ==
    IF Len(semivariance) = 0 \/ Len(lags) = 0 THEN Raise("ValueError")
    ELSE Return(<< PyDiv(Sub(amax(semivariance), amin(semivariance)),
                         Sub(amax(lags), amin(lags))),
                   amin(semivariance) >>)

\* variant: the slope is not divided by the width of the lags
linear_variogram_model_x0_no_width(lags, semivariance) ==
    IF Len(semivariance) = 0 \/ Len(lags) = 0 THEN Raise("ValueError")
    ELSE Return(<< NpDiv(Sub(amax(semivariance), amin(semivariance)),
                         amax(lags)),
                   amin(semivariance) >>)

linear_variogram_model_x0(lags, semivariance) ==
    IF Len(semivariance) = 0 \/ Len(lags) = 0 THEN Raise("ValueError")
    ELSE Return(<< NpDiv(Sub(amax(semivariance), amin(semivariance)),
                         Sub(amax(lags), amin(lags))),
                   amin(semivariance) >>)

power_variogram_model_bnds(lags, semivariance) ==
    IF Len(semivariance) = 0 THEN RaiseB("ValueError")
    ELSE ReturnB(<<Zero, Fin(1, 10000), Zero>>,
                 <<Inf, Fin(1999, 1000), amax(semivariance)>>)

\* variant: the exponent's guess is missing
power_variogram_model_x0_short(lags, semivariance) ==
    IF Len(semivariance) = 0 \/ Len(lags) = 0 THEN Raise("ValueError")
    ELSE Return(<< NpDiv(Sub(amax(semivariance), amin(semivariance)),
                         Sub(amax(lags), amin(lags))),
                   amin(semivariance) >>)

power_variogram_model_x0(lags, semivariance) ==
    IF Len(semivariance) = 0 \/ Len(lags) = 0 THEN Raise("ValueError")
    ELSE Return(<< NpDiv(Sub(amax(semivariance), amin(semivariance)),
                         Sub(amax(lags), amin(lags))),
                   Fin(11, 10),
                   amin(semivariance) >>)

gaussian_variogram_model_bnds(lags, semivariance) ==
    IF Len(semivariance) = 0 \/ Len(lags) = 0 THEN RaiseB("ValueError")
    ELSE ReturnB(<<Zero, Zero, Zero>>,
                 << Mul(Fin(10, 1), amax(semivariance)),
                    amax(lags),
                    amax(semivariance) >>)

\* variant: the range guess is 2.5 times the largest lag
gaussian_variogram_model_x0_wide(lags, semivariance) ==
    IF Len(semivariance) = 0 \/ Len(lags) = 0 THEN Raise("ValueError")
    ELSE Return(<< Sub(amax(semivariance), amin(semivariance)),
                   Mul(Fin(5, 2), amax(lags)),
                   amin(semivariance) >>)

gaussian_variogram_model_x0(lags, semivariance) ==
    IF Len(semivariance) = 0 \/ Len(lags) = 0 THEN Raise("ValueError")
    ELSE Return(<< Sub(amax(semivariance), amin(semivariance)),
                   Mul(Fin(1, 4), amax(lags)),
                   amin(semivariance) >>)

gamma_rayleigh_nuggetless_variogram_model_bnds(lags, semivariance) ==
    ReturnB(<<Zero, Zero, Zero>>, <<Fin(1000, 1), Fin(10, 1), Fin(10, 1)>>)

gamma_rayleigh_nuggetless_variogram_model_x0(lags, semivariance) ==
    Return(<<Fin(2, 1), Fin(1, 100), Fin(1, 10000)>>)

\* ------------------------------------------------------------- registry
\* A function object: its identity and its __name__.  Two different
\* functions may carry the same __name__.
Fn(name) == [id |-> name, name |-> name]

\* variogram_model.__init__: the descriptor is named after its function
variogram_model(function, parameters, parameter_names, bnds, x0) ==
    [name            |-> function.name,
     function        |-> function,
     parameters      |-> parameters,
     parameter_names |-> parameter_names,
     bnds            |-> bnds,
     x0              |-> x0]

\* variant: an existing entry is kept (first registration wins)
add_model_keep_first(registry, model) ==
    [n \in (DOMAIN registry) \cup {model.name} |->
        IF n \in DOMAIN registry THEN registry[n] ELSE model]

\* _add_model: variogram_models[model.name] = model
add_model(registry, model) ==
    [n \in (DOMAIN registry) \cup {model.name} |->
        IF n = model.name THEN model ELSE registry[n]]

\* variant: a missing name gets an empty entry, as in a defaultdict
lookup_insert(registry, name) ==
    LET empty == [name |-> name, function |-> Fn("None"), parameters |-> "None",
                  parameter_names |-> <<>>, bnds |-> "None", x0 |-> "None"]
        reg2  == [n \in (DOMAIN registry) \cup {name} |->
                     IF n \in DOMAIN registry THEN registry[n] ELSE empty]
    IN  [err |-> "ok", desc |-> reg2[name], registry |-> reg2]

\* variogram_models[name]: the descriptor, or KeyError; the dict is only read
lookup(registry, name) ==
    IF name \in DOMAIN registry
    THEN [err |-> "ok", desc |-> registry[name], registry |-> registry]
    ELSE [err |-> "KeyError",
          desc |-> variogram_model(Fn("None"), "None", <<>>, "None", "None"),
          registry |-> registry]

\* variant: the exponential entry is built from the gaussian function
ModuleModels_copied ==
    << variogram_model(Fn("linear_variogram_model"), "None",
                       <<"slope", "nugget">>,
                       "linear_variogram_model_bnds",
                       "linear_variogram_model_x0"),
       variogram_model(Fn("power_variogram_model"), "None",
                       <<"scale", "exponent", "nugget">>,
                       "power_variogram_model_bnds",
                       "power_variogram_model_x0"),
       variogram_model(Fn("gaussian_variogram_model"), "None",
                       <<"psill", "range_", "nugget">>,
                       "gaussian_variogram_model_bnds",
                       "gaussian_variogram_model_x0"),
       variogram_model(Fn("gaussian_variogram_model"), "None",
                       <<"psill", "range_", "nugget">>,
                       "gaussian_variogram_model_bnds",
                       "gaussian_variogram_model_x0"),
       variogram_model(Fn("spherical_variogram_model"), "None",
                       <<"psill", "range_", "nugget">>,
                       "gaussian_variogram_model_bnds",
                       "gaussian_variogram_model_x0"),
       variogram_model(Fn("hole_effect_variogram_model"), "None",
                       <<"psill", "range_", "nugget">>,
                       "gaussian_variogram_model_bnds",
                       "gaussian_variogram_model_x0"),
       variogram_model(Fn("gamma_rayleigh_nuggetless_variogram_model"), "None",
                       <<"sill", "falloff", "beta">>,
                       "gamma_rayleigh_nuggetless_variogram_model_bnds",
                       "gamma_rayleigh_nuggetless_variogram_model_x0") >>

\* the _add_model calls of the module body, in source order
ModuleModels ==
    << variogram_model(Fn("linear_variogram_model"), "None",
                       <<"slope", "nugget">>,
                       "linear_variogram_model_bnds",
                       "linear_variogram_model_x0"),
       variogram_model(Fn("power_variogram_model"), "None",
                       <<"scale", "exponent", "nugget">>,
                       "power_variogram_model_bnds",
                       "power_variogram_model_x0"),
       variogram_model(Fn("gaussian_variogram_model"), "None",
                       <<"psill", "range_", "nugget">>,
                       "gaussian_variogram_model_bnds",
                       "gaussian_variogram_model_x0"),
       variogram_model(Fn("exponential_variogram_model"), "None",
                       <<"psill", "range_", "nugget">>,
                       "gaussian_variogram_model_bnds",
                       "gaussian_variogram_model_x0"),
       variogram_model(Fn("spherical_variogram_model"), "None",
                       <<"psill", "range_", "nugget">>,
                       "gaussian_variogram_model_bnds",
                       "gaussian_variogram_model_x0"),
       variogram_model(Fn("hole_effect_variogram_model"), "None",
                       <<"psill", "range_", "nugget">>,
                       "gaussian_variogram_model_bnds",
                       "gaussian_variogram_model_x0"),
       variogram_model(Fn("gamma_rayleigh_nuggetless_variogram_model"), "None",
                       <<"sill", "falloff", "beta">>,
                       "gamma_rayleigh_nuggetless_variogram_model_bnds",
                       "gamma_rayleigh_nuggetless_variogram_model_x0") >>

\* function(m, d) of a descriptor's function object
Call(f, m, d) ==
    CASE f.id = "linear_variogram_model"      -> linear_variogram_model(m, d)
      [] f.id = "power_variogram_model"       -> power_variogram_model(m, d)
      [] f.id = "gaussian_variogram_model"    -> gaussian_variogram_model(m, d)
      [] f.id = "exponential_variogram_model" -> exponential_variogram_model(m, d)
      [] f.id = "spherical_variogram_model"   -> spherical_variogram_model(m, d)
      [] f.id = "hole_effect_variogram_model" -> hole_effect_variogram_model(m, d)
      [] f.id = "gamma_rayleigh_nuggetless_variogram_model" ->
             gamma_rayleigh_nuggetless_variogram_model(m, d)

\* bnds(lags, semivariance) of a descriptor's bounds helper
CallBnds(h, lags, semivariance) ==
    CASE h = "linear_variogram_model_bnds" ->
             linear_variogram_model_bnds(lags, semivariance)
      [] h = "power_variogram_model_bnds" ->
             power_variogram_model_bnds(lags, semivariance)
      [] h = "gaussian_variogram_model_bnds" ->
             gaussian_variogram_model_bnds(lags, semivariance)
      [] h = "gamma_rayleigh_nuggetless_variogram_model_bnds" ->
             gamma_rayleigh_nuggetless_variogram_model_bnds(lags, semivariance)

\* x0(lags, semivariance) of a descriptor's initial-guess helper
CallX0(h, lags, semivariance) ==
    CASE h = "linear_variogram_model_x0" ->
             linear_variogram_model_x0(lags, semivariance)
      [] h = "power_variogram_model_x0" ->
             power_variogram_model_x0(lags, semivariance)
      [] h = "gaussian_variogram_model_x0" ->
             gaussian_variogram_model_x0(lags, semivariance)
      [] h = "gamma_rayleigh_nuggetless_variogram_model_x0" ->
             gamma_rayleigh_nuggetless_variogram_model_x0(lags, semivariance)

\* ---------------------------------------------------------------- inputs
SeqsUpTo(S, n) == UNION {[1..l -> S] : l \in 0..n}

\* descriptors a caller registers after import
UserFunctions ==
    { [id |-> "user_linear",   name |-> "linear_variogram_model"],
      [id |-> "user_custom_a", name |-> "custom_variogram_model"],
      [id |-> "user_custom_b", name |-> "custom_variogram_model"] }

UserModels ==
    { variogram_model(f, "None", pn, b, x) :
        f \in UserFunctions,
        pn \in {<<"a">>, <<"a", "b">>},
        b \in {"None", "linear_variogram_model_bnds"},
        x \in {"None", "linear_variogram_model_x0"} }

ModuleNames == {ModuleModels[i].name : i \in DOMAIN ModuleModels}

LookupNames == ModuleNames \cup {"custom_variogram_model", "linear", "unknown"}

ParamVals == {Int2Num(i) : i \in -1..MaxParam} \cup {Fin(1, 2)}

\* parameter sequences of every length from none to one more than any
\* model reads
ParamSeqs ==
    LET full == [1..3 -> ParamVals]
    IN  {SubSeq(b, 1, l) : b \in full, l \in 0..3} \cup {b \o <<One>> : b \in full}

DistVals == {Int2Num(i) : i \in 0..MaxDist}

Distances ==
    {[kind |-> "float", v |-> <<x>>] : x \in DistVals}
    \cup {[kind |-> "ndarray", v |-> s] : s \in SeqsUpTo(DistVals, MaxDLen)}

DataVals == {Int2Num(i) : i \in -1..MaxVal}

ExampleLags == <<Fin(1, 1), Fin(2, 1), Fin(3, 1), Fin(4, 1)>>
ExampleSemivariance == <<Fin(1, 2), Fin(1, 1), Fin(3, 2), Fin(2, 1)>>

LagInputs == SeqsUpTo(DataVals, MaxLags) \cup {ExampleLags}
SemivarianceInputs == SeqsUpTo(DataVals, MaxLags) \cup {ExampleSemivariance}

\* ----------------------------------------------------------------- state
VARIABLES
    pc,                \* number of module-level _add_model calls executed
    variogram_models,  \* the registry: name -> descriptor
    history,           \* every descriptor registered so far, in order
    reg_call,          \* the last register / lookup call and its outcome
    ev_call,           \* the last evaluation call and its outcome
    hp_call            \* the last bnds / x0 helper call and its outcome

vars == <<pc, variogram_models, history, reg_call, ev_call, hp_call>>

Init ==
    /\ pc = 0
    /\ variogram_models = <<>>
    /\ history = <<>>
    /\ reg_call = [op |-> "none"]
    /\ ev_call = [op |-> "none"]
    /\ hp_call = [op |-> "none"]

Imported == pc = Len(ModuleModels)

\* one _add_model(variogram_model(...)) statement of the module body
ModuleInit ==
    /\ pc < Len(ModuleModels)
    /\ variogram_models' = add_model(variogram_models, ModuleModels[pc + 1])
    /\ history' = Append(history, ModuleModels[pc + 1])
    /\ pc' = pc + 1
    /\ reg_call' = [op |-> "register", name |-> ModuleModels[pc + 1].name,
                    err |-> "ok", desc |-> ModuleModels[pc + 1]]
    /\ UNCHANGED <<ev_call, hp_call>>

\* a caller registers a descriptor of its own
Register ==
    /\ Imported
    /\ Len(history) < Len(ModuleModels) + MaxRegs
    /\ \E model \in UserModels :
        /\ variogram_models' = add_model(variogram_models, model)
        /\ history' = Append(history, model)
        /\ reg_call' = [op |-> "register", name |-> model.name,
                        err |-> "ok", desc |-> model]
    /\ UNCHANGED <<pc, ev_call, hp_call>>

\* a caller reads variogram_models[name]
Lookup ==
    /\ Imported
    /\ \E name \in LookupNames :
        LET r == lookup(variogram_models, name) IN
        /\ variogram_models' = r.registry
        /\ reg_call' = [op |-> "lookup", name |-> name,
                        err |-> r.err, desc |-> r.desc]
    /\ UNCHANGED <<pc, history, ev_call, hp_call>>

\* a caller evaluates a registered model: variogram_models[name].function(m, d).
\* The functions are pure, so a behaviour holds one call: each call is
\* explored from the imported registry and none depends on an earlier one.
Evaluate ==
    /\ Imported
    /\ ev_call.op = "none"
    /\ \E name \in DOMAIN variogram_models, m \in ParamSeqs, d \in Distances :
        LET out == Call(variogram_models[name].function, m, d) IN
        /\ ~Inexact(out)
        /\ ev_call' = [op |-> "evaluate", name |-> name, m |-> m, d |-> d,
                       out |-> out]
    /\ UNCHANGED <<pc, variogram_models, history, reg_call, hp_call>>

\* a caller asks a registered model for its bounds (one helper call per
\* behaviour, the helpers being pure as well)
Bnds ==
    /\ Imported
    /\ hp_call.op = "none"
    /\ \E name \in DOMAIN variogram_models,
          lags \in LagInputs, semivariance \in SemivarianceInputs :
        hp_call' = [op |-> "bnds", name |-> name, lags |-> lags,
                    semivariance |-> semivariance,
                    out |-> CallBnds(variogram_models[name].bnds,
                                     lags, semivariance)]
    /\ UNCHANGED <<pc, variogram_models, history, reg_call, ev_call>>

\* a caller asks a registered model for its initial guess
X0 ==
    /\ Imported
    /\ hp_call.op = "none"
    /\ \E name \in DOMAIN variogram_models,
          lags \in LagInputs, semivariance \in SemivarianceInputs :
        hp_call' = [op |-> "x0", name |-> name, lags |-> lags,
                    semivariance |-> semivariance,
                    out |-> CallX0(variogram_models[name].x0,
                                   lags, semivariance)]
    /\ UNCHANGED <<pc, variogram_models, history, reg_call, ev_call>>

\* the registry: import, then registrations and lookups
Next == ModuleInit \/ Register \/ Lookup
Spec == Init /\ [][Next]_vars

\* evaluation of the models registered by the module
NextEval == ModuleInit \/ Evaluate
SpecEval == Init /\ [][NextEval]_vars

\* the bounds and initial-guess helpers of the models registered by the module
NextHelpers == ModuleInit \/ Bnds \/ X0
SpecHelpers == Init /\ [][NextHelpers]_vars

\* ------------------------------------------------------ registry claims
RegisteredNames(h) == {h[i].name : i \in DOMAIN h}

\* the descriptor of the most recent registration under name n
RECURSIVE LastRegistered(_, _)
LastRegistered(h, n) ==
    IF h[Len(h)].name = n THEN h[Len(h)]
    ELSE LastRegistered(SubSeq(h, 1, Len(h) - 1), n)

C1_State ==
    /\ DOMAIN variogram_models = RegisteredNames(history)
    /\ \A n \in RegisteredNames(history) :
        /\ lookup(variogram_models, n).err = "ok"
        /\ lookup(variogram_models, n).desc = LastRegistered(history, n)
    /\ (reg_call.op = "lookup" /\ reg_call.name \in RegisteredNames(history)) =>
        /\ reg_call.err = "ok"
        /\ reg_call.desc = LastRegistered(history, reg_call.name)

C1_Step ==
    history' # history =>
        \A n \in DOMAIN variogram_models :
            n # history'[Len(history')].name =>
                /\ n \in DOMAIN variogram_models'
                /\ variogram_models'[n] = variogram_models[n]

\* C1: after any sequence of registrations the registry holds, for every
\* registered name, exactly the descriptor of the most recent registration
\* under that name (function, parameter names and helpers included), a lookup
\* of the name returns it, and a registration leaves the entries of all other
\* names as they were.
C1_LastRegistrationWins == []C1_State /\ [][C1_Step]_vars

\* a lookup returned the second of two different descriptors registered
\* under one name
C1_Witness ==
    /\ reg_call.op = "lookup"
    /\ reg_call.err = "ok"
    /\ \E i, j \in DOMAIN history :
        /\ i < j
        /\ history[i].name = reg_call.name
        /\ history[j] = reg_call.desc
        /\ history[i].function # history[j].function
        /\ history[i].parameter_names # history[j].parameter_names
        /\ history[i].bnds # history[j].bnds

C2_State ==
    (reg_call.op = "lookup" /\ reg_call.name \notin RegisteredNames(history)) =>
        /\ reg_call.err = "KeyError"
        /\ reg_call.name \notin DOMAIN variogram_models

C2_Step ==
    (reg_call'.op = "lookup" /\ reg_call'.name \notin RegisteredNames(history)) =>
        /\ reg_call'.err = "KeyError"
        /\ variogram_models' = variogram_models

\* C2: a lookup of a name that was never registered ends in KeyError (the
\* "not found" outcome), returns no descriptor and leaves the registry as it
\* was: no entry appears for the name.
C2_UnknownNameNotFound == []C2_State /\ [][C2_Step]_vars

\* the name "linear" (the registry's key is "linear_variogram_model") was
\* looked up after a caller's registration and was not found
C2_Witness ==
    /\ reg_call.op = "lookup"
    /\ reg_call.name = "linear"
    /\ reg_call.err = "KeyError"
    /\ Len(history) > Len(ModuleModels)

SevenModels ==
    { "linear_variogram_model", "power_variogram_model",
      "gaussian_variogram_model", "exponential_variogram_model",
      "spherical_variogram_model", "hole_effect_variogram_model",
      "gamma_rayleigh_nuggetless_variogram_model" }

\* C9: no registration of the module body overwrites an earlier one, and when
\* the body has run the registry holds exactly seven entries, one per model,
\* each under the name of its function and each holding the function it is
\* named after.
C9_SevenDistinctEntries ==
    /\ Len(history) = pc => Cardinality(DOMAIN variogram_models) = pc
    /\ (Imported /\ Len(history) = pc) =>
        /\ DOMAIN variogram_models = SevenModels
        /\ Cardinality(DOMAIN variogram_models) = Cardinality(SevenModels)
        /\ \A n \in SevenModels :
            /\ variogram_models[n].name = n
            /\ variogram_models[n].function = Fn(n)

\* the module body has run and nothing else has been registered
C9_Witness ==
    /\ Imported
    /\ Len(history) = pc
    /\ reg_call.op = "lookup"
    /\ reg_call.name = "gamma_rayleigh_nuggetless_variogram_model"
    /\ reg_call.err = "ok"

\* ---------------------------------------------------- evaluation claims
\* the descriptor the last evaluation went through
EvModel == variogram_models[ev_call.name]

\* the number of parameters the descriptor lists
Arity(model) == Len(model.parameter_names)

\* position of a parameter name in a descriptor (0 when absent)
IndexOf(model, pname) ==
    IF \E i \in DOMAIN model.parameter_names : model.parameter_names[i] = pname
    THEN CHOOSE i \in DOMAIN model.parameter_names :
             model.parameter_names[i] = pname
    ELSE 0

HasNugget(model) == IndexOf(model, "nugget") # 0

\* an evaluation at distance zero with as many parameters as the model lists
EvalAtZero ==
    /\ ev_call.op = "evaluate"
    /\ HasNugget(EvModel)
    /\ Len(ev_call.m) = Arity(EvModel)
    /\ Len(ev_call.d.v) > 0
    /\ \A i \in DOMAIN ev_call.d.v : ev_call.d.v[i] = Zero

ReturnsNugget ==
    /\ ev_call.out.err = "ok"
    /\ \A i \in DOMAIN ev_call.out.val :
        ev_call.out.val[i] = ev_call.m[IndexOf(EvModel, "nugget")]

\* C4 as stated: for every model with a nugget and every parameter sequence,
\* the value at distance zero is the nugget.
C4_Original == EvalAtZero => ReturnsNugget

\* the parameters at which the value at zero is the nugget: a positive
\* exponent for power, a non-zero range for gaussian, exponential and
\* hole_effect, a positive range for spherical
C4_Regular ==
    LET f == EvModel.function.id
        m == ev_call.m
    IN  CASE f = "linear_variogram_model"    -> TRUE
          [] f = "power_variogram_model"     -> Gt(m[2], Zero)
          [] f = "spherical_variogram_model" -> Gt(m[2], Zero)
          [] OTHER                           -> m[2] # Zero

\* C4 (amended): the value at distance zero is the nugget for linear; for
\* power when the exponent is positive; for gaussian, exponential and
\* hole_effect when the range is not zero; for spherical when the range is
\* positive.
C4_NuggetAtZero == (EvalAtZero /\ C4_Regular) => ReturnsNugget

\* gaussian evaluated at the scalar distance 0 returned a non-zero nugget
C4_Witness ==
    /\ EvalAtZero
    /\ C4_Regular
    /\ ev_call.name = "gaussian_variogram_model"
    /\ ev_call.d.kind = "float"
    /\ ev_call.m[1] # Zero
    /\ ev_call.m[3] = Fin(1, 2)
    /\ ev_call.out = [err |-> "ok", val |-> <<Fin(1, 2)>>]

\* a spherical evaluation with the three listed parameters
SphericalCall ==
    /\ ev_call.op = "evaluate"
    /\ ev_call.name = "spherical_variogram_model"
    /\ Len(ev_call.m) = Arity(EvModel)

\* psill*((3*x)/(2*range) - x^3/(2*range^3)) + nugget with IEEE division
C5_Formula(psill, range, nugget, x) ==
    LET a == NpDiv(Mul(Fin(3, 1), x), Mul(Fin(2, 1), range))
        b == NpDiv(Mul(x, Mul(x, x)), Mul(Fin(2, 1), Mul(range, Mul(range, range))))
    IN  Add(Mul(psill, Sub(a, b)), nugget)

\* C5 as stated: each element above the range, and each element equal to the
\* range, gets psill + nugget; each element at or below the range gets the
\* inner formula.
C5_Original ==
    SphericalCall =>
        /\ ev_call.out.err = "ok"
        /\ \A i \in DOMAIN ev_call.d.v :
            LET x == ev_call.d.v[i]
                m == ev_call.m
            IN  /\ (Gt(x, m[2]) \/ x = m[2]) =>
                       ev_call.out.val[i] = Add(m[1], m[3])
                /\ Le(x, m[2]) =>
                       ev_call.out.val[i] = C5_Formula(m[1], m[2], m[3], x)

\* C5 (amended): each element is computed from its own branch: psill + nugget
\* above the range, the inner formula at or below it (the boundary belongs to
\* the inner formula); at an element equal to a non-zero range the inner
\* formula's value is psill + nugget, and at range = 0 = d[i] it is nan.
C5_SphericalElementwise ==
    SphericalCall =>
        /\ ev_call.out.err = "ok"
        /\ Len(ev_call.out.val) = Len(ev_call.d.v)
        /\ \A i \in DOMAIN ev_call.d.v :
            LET x == ev_call.d.v[i]
                m == ev_call.m
            IN  /\ Gt(x, m[2]) => ev_call.out.val[i] = Add(m[1], m[3])
                /\ Le(x, m[2]) =>
                       ev_call.out.val[i] = C5_Formula(m[1], m[2], m[3], x)
                /\ (x = m[2] /\ m[2] # Zero) =>
                       ev_call.out.val[i] = Add(m[1], m[3])
                /\ (x = m[2] /\ m[2] = Zero) => ev_call.out.val[i] = NaN

\* an array with an element below the range and one above it, the two with
\* different values, the one above with psill + nugget
C5_Witness ==
    /\ SphericalCall
    /\ ev_call.d.kind = "ndarray"
    /\ ev_call.m[1] # Zero
    /\ \E i, j \in DOMAIN ev_call.d.v :
        /\ Lt(ev_call.d.v[i], ev_call.m[2])
        /\ Gt(ev_call.d.v[j], ev_call.m[2])
        /\ ev_call.out.val[i] # ev_call.out.val[j]
        /\ ev_call.out.val[j] = Add(ev_call.m[1], ev_call.m[3])

\* C6 as stated: a parameter sequence shorter or longer than the model's
\* parameter list makes evaluate fail with an index error.
C6_Original ==
    (ev_call.op = "evaluate" /\ Len(ev_call.m) # Arity(EvModel)) =>
        ev_call.out.err = "IndexError"

\* C6 (amended): a parameter sequence shorter than the model's parameter list
\* makes evaluate fail with IndexError and return nothing; a longer one does
\* not fail, its extra entries are ignored and the result is that of its
\* first Arity entries.
C6_ArityMismatch ==
    ev_call.op = "evaluate" =>
        /\ Len(ev_call.m) < Arity(EvModel) =>
               ev_call.out = [err |-> "IndexError", val |-> <<>>]
        /\ Len(ev_call.m) >= Arity(EvModel) =>
               /\ ev_call.out.err # "IndexError"
               /\ ev_call.out = Call(EvModel.function,
                                     SubSeq(ev_call.m, 1, Arity(EvModel)),
                                     ev_call.d)

\* linear was given four parameters and returned slope * d + nugget
C6_Witness ==
    /\ ev_call.op = "evaluate"
    /\ ev_call.name = "linear_variogram_model"
    /\ Len(ev_call.m) = 4
    /\ ev_call.d.v = <<Fin(2, 1)>>
    /\ ev_call.m[1] = Fin(2, 1)
    /\ ev_call.m[2] = Fin(1, 2)
    /\ ev_call.out = [err |-> "ok", val |-> <<Fin(9, 2)>>]

\* -------------------------------------------------------- helper claims
\* the descriptor the last helper call went through
HpModel == variogram_models[hp_call.name]

NonEmptyInput == Len(hp_call.lags) > 0 /\ Len(hp_call.semivariance) > 0

Range(s) == {s[i] : i \in DOMAIN s}
Largest(s)  == CHOOSE x \in Range(s) : \A y \in Range(s) : Le(y, x)
Smallest(s) == CHOOSE x \in Range(s) : \A y \in Range(s) : Le(x, y)
Width(s) == Sub(Largest(s), Smallest(s))

\* the number of leading parameters a function reads: the parameter
\* sequences of fewer entries are the ones it fails to index
ParamsRead(f) ==
    Cardinality({l \in 0..4 :
        Call(f, [i \in 1..l |-> One], [kind |-> "ndarray", v |-> <<>>]).err
            = "IndexError"})

\* the value at distance 0 is the parameter at position i
ReadsNuggetAt(f, n, i) ==
    Call(f, [j \in 1..n |-> IF j = i THEN Fin(5, 1) ELSE One],
         [kind |-> "ndarray", v |-> <<Zero>>])
        = [err |-> "ok", val |-> <<Fin(5, 1)>>]

C3_Static ==
    \A n \in DOMAIN variogram_models :
        LET md == variogram_models[n] IN
        /\ Len(md.parameter_names) = ParamsRead(md.function)
        /\ \A i \in DOMAIN md.parameter_names :
            md.parameter_names[i] = "nugget" =>
                ReadsNuggetAt(md.function, Len(md.parameter_names), i)

C3_Call ==
    (hp_call.op # "none" /\ NonEmptyInput) =>
        LET names == HpModel.parameter_names
            out   == hp_call.out
        IN  /\ out.err = "ok"
            /\ hp_call.op = "bnds" =>
                /\ Len(out.lower) = Len(names)
                /\ Len(out.upper) = Len(names)
                /\ \A i \in DOMAIN names :
                    /\ names[i] = "nugget" =>
                        /\ out.lower[i] = Zero
                        /\ out.upper[i] = Largest(hp_call.semivariance)
                    /\ names[i] = "range_" =>
                        out.upper[i] = Largest(hp_call.lags)
                    /\ names[i] = "exponent" =>
                        out.upper[i] = Fin(1999, 1000)
            /\ hp_call.op = "x0" =>
                /\ Len(out.val) = Len(names)
                /\ \A i \in DOMAIN names :
                    /\ names[i] = "nugget" =>
                        out.val[i] = Smallest(hp_call.semivariance)
                    /\ names[i] = "range_" =>
                        out.val[i] = Mul(Fin(1, 4), Largest(hp_call.lags))
                    /\ names[i] = "exponent" => out.val[i] = Fin(11, 10)

\* C3: for every model the module registers, the parameter names are as many
\* as the parameters its function reads, as the lower and the upper bounds its
\* bnds helper returns and as the entries its x0 helper returns, and the nugget,
\* range and exponent sit at the same position in all of them.
C3_ParameterShapesAgree == (Imported /\ Len(history) = pc) => (C3_Static /\ C3_Call)

\* the power model's x0 helper returned three entries, the exponent's second
C3_Witness ==
    /\ hp_call.op = "x0"
    /\ hp_call.name = "power_variogram_model"
    /\ NonEmptyInput
    /\ Len(hp_call.out.val) = Len(HpModel.parameter_names)
    /\ hp_call.out.val[2] = Fin(11, 10)
    /\ ParamsRead(HpModel.function) = Len(hp_call.out.val)

LagsFlat == Largest(hp_call.lags) = Smallest(hp_call.lags)
SemivarianceFlat ==
    Largest(hp_call.semivariance) = Smallest(hp_call.semivariance)

\* a helper call on non-empty input with a zero-width lag or semivariance range
DegenerateCall ==
    /\ hp_call.op # "none"
    /\ NonEmptyInput
    /\ LagsFlat \/ SemivarianceFlat

NormalLength ==
    /\ hp_call.out.err = "ok"
    /\ hp_call.op = "bnds" =>
        /\ Len(hp_call.out.lower) = Arity(HpModel)
        /\ Len(hp_call.out.upper) = Arity(HpModel)
    /\ hp_call.op = "x0" => Len(hp_call.out.val) = Arity(HpModel)

\* the x0 entry computed from the widths: the slope or scale guess of linear
\* and power (both widths), the psill guess of the gaussian helper
\* (semivariance width)
WidthEntryNonFinite ==
    (hp_call.op = "x0" /\ hp_call.out.err = "ok") =>
        /\ HpModel.x0 \in {"linear_variogram_model_x0", "power_variogram_model_x0"}
               => IsNonFinite(hp_call.out.val[1])
        /\ (HpModel.x0 = "gaussian_variogram_model_x0" /\ SemivarianceFlat)
               => IsNonFinite(hp_call.out.val[1])

\* C7 as stated: on a zero-width lag or semivariance range every helper
\* returns a result of the normal length, without error, whose entries
\* computed from the zero width are inf or nan.
C7_Original == DegenerateCall => (NormalLength /\ WidthEntryNonFinite)

AllFinite(s) == \A i \in DOMAIN s : IsFinite(s[i])

\* C7 (amended): on a zero-width lag or semivariance range every helper
\* returns a result of the normal length, without error.  The only non-finite
\* entry a zero width produces is the slope / scale guess of the linear and
\* power x0 helpers, and only when the lags have zero width: inf when the
\* semivariance has a positive width, nan when it has none.  A zero-width
\* semivariance alone gives the finite guess 0, and the gaussian and
\* gamma-rayleigh helpers return finite entries throughout.
C7_DegenerateInput ==
    DegenerateCall =>
        /\ NormalLength
        /\ hp_call.op = "x0" =>
            /\ AllFinite(Tail(hp_call.out.val))
            /\ IF /\ HpModel.x0 \in {"linear_variogram_model_x0",
                                     "power_variogram_model_x0"}
                  /\ LagsFlat
               THEN hp_call.out.val[1] =
                        (IF SemivarianceFlat THEN NaN ELSE Inf)
               ELSE IsFinite(hp_call.out.val[1])
        /\ hp_call.op = "bnds" =>
            /\ AllFinite(hp_call.out.lower)
            /\ AllFinite(Tail(hp_call.out.upper))
            /\ hp_call.out.upper[1] = Inf <=>
                   HpModel.bnds \in {"linear_variogram_model_bnds",
                                     "power_variogram_model_bnds"}

\* the linear x0 helper divided a positive semivariance width by a zero lag
\* width and returned inf
C7_Witness ==
    /\ DegenerateCall
    /\ hp_call.op = "x0"
    /\ hp_call.name = "linear_variogram_model"
    /\ LagsFlat /\ ~SemivarianceFlat
    /\ hp_call.out.err = "ok"
    /\ hp_call.out.val[1] = Inf

\* C8: for non-empty input whose lags have a non-zero width the linear x0
\* helper returns [width(semivariance) / width(lags), min(semivariance)] and
\* the linear bnds helper returns ([0, 0], [inf, max(semivariance)]); for lags
\* 1,2,3,4 and semivariance 0.5,1.0,1.5,2.0 that is [0.5, 0.5] and
\* ([0, 0], [inf, 2.0]).
C8_LinearHelpers ==
    (/\ hp_call.op # "none"
     /\ hp_call.name = "linear_variogram_model"
     /\ Len(history) = pc
     /\ NonEmptyInput
     /\ ~LagsFlat) =>
        /\ hp_call.op = "x0" =>
            /\ hp_call.out =
                   [err |-> "ok",
                    val |-> << NpDiv(Width(hp_call.semivariance),
                                     Width(hp_call.lags)),
                               Smallest(hp_call.semivariance) >>]
            /\ (hp_call.lags = ExampleLags
                /\ hp_call.semivariance = ExampleSemivariance) =>
                   hp_call.out.val = <<Fin(1, 2), Fin(1, 2)>>
        /\ hp_call.op = "bnds" =>
            /\ hp_call.out =
                   [err |-> "ok",
                    lower |-> <<Zero, Zero>>,
                    upper |-> <<Inf, Largest(hp_call.semivariance)>>]
            /\ (hp_call.lags = ExampleLags
                /\ hp_call.semivariance = ExampleSemivariance) =>
                   hp_call.out.upper = <<Inf, Fin(2, 1)>>

\* the linear x0 helper was called on the example data and returned [0.5, 0.5]
C8_Witness ==
    /\ hp_call.op = "x0"
    /\ hp_call.name = "linear_variogram_model"
    /\ hp_call.lags = ExampleLags
    /\ hp_call.semivariance = ExampleSemivariance
    /\ hp_call.out = [err |-> "ok", val |-> <<Fin(1, 2), Fin(1, 2)>>]

NonNegative(s) == \A i \in DOMAIN s : Le(Zero, s[i])

\* an x0 call on non-negative data whose lags have a positive width
C10_Case ==
    /\ hp_call.op = "x0"
    /\ Len(history) = pc
    /\ NonEmptyInput
    /\ NonNegative(hp_call.lags)
    /\ NonNegative(hp_call.semivariance)
    /\ Lt(Smallest(hp_call.lags), Largest(hp_call.lags))

\* C10: on non-negative data whose lags have a positive width, every entry of
\* a model's initial guess lies inside the box its bnds helper returns for
\* the same data, and the box is not empty.
C10_GuessInsideBounds ==
    C10_Case =>
        LET b == CallBnds(HpModel.bnds, hp_call.lags, hp_call.semivariance)
            x == hp_call.out
        IN  /\ x.err = "ok" /\ b.err = "ok"
            /\ Len(x.val) = Len(b.lower) /\ Len(x.val) = Len(b.upper)
            /\ \A i \in DOMAIN x.val :
                /\ Le(b.lower[i], x.val[i])
                /\ Le(x.val[i], b.upper[i])
                /\ Le(b.lower[i], b.upper[i])

\* the spherical model's guess (the gaussian helper) on data with a positive
\* lag and semivariance width and a positive nugget guess
C10_Witness ==
    /\ C10_Case
    /\ hp_call.name = "spherical_variogram_model"
    /\ Lt(Zero, hp_call.out.val[1])
    /\ Lt(Zero, hp_call.out.val[2])
    /\ Lt(Zero, hp_call.out.val[3])

====
